---- MODULE Spec2Model ----
(***************************************************************************)
(* A model of the two i2 Connect sample connectors: the example connector  *)
(* (seeded searches over an in-memory data set of people, API-key          *)
(* authentication) and the NYPD connector (fetch of complaint rows and     *)
(* their mapping to Complaint / Location / Person entities and links).     *)
(*                                                                         *)
(* A service invocation is a value `inv`; synchronous services are one     *)
(* action, the NYPD services are two (the call up to `await requestData`,  *)
(* and the resumption with the HTTP response).  A Result keeps, beside its *)
(* entities and links, the log of the add-calls made on it in call order.  *)
(* A second invocation may be in flight beside `inv`: `other` holds it     *)
(* while it is suspended at an await or waits to be handed to its caller.  *)
(***************************************************************************)
EXTENDS Integers, Sequences, FiniteSets, TLC

VARIABLES
    inv,        \* the service invocation in progress or last finished
    fetches,    \* number of HTTP fetches made by the current invocation
    response,   \* the HTTP response the current invocation received, or NoResponse
    clock,      \* wall clock, in seconds
    heldToken,  \* the token the client holds (last issued by loginApiKey), or NoToken
    other,      \* the other invocation in flight: its inv, fetches and response
    dataSet,    \* the in-memory data set of people that lookupPeople reads
    config      \* the configuration of 'Search Within a Data Source' last served, or NoConfig

vars == <<inv, fetches, response, clock, heldToken, other, dataSet, config>>

----------------------------------------------------------------------------
(* Bounds of the model *)

MaxSeeds == 2       \* seeds per invocation of a friend-expand service
MaxKeys == 2        \* identifiers carried by one seed
MaxRows == 2        \* rows in one HTTP response
MaxClock == 61      \* the clock stops advancing here
NewYearAt == 2      \* the clock reads 0 this many seconds before 1 January 2027
MaxDuration == 2    \* largest 'Duration in seconds' a caller supplies
MaxStart == 2       \* the latest time at which an async search is started

----------------------------------------------------------------------------
(* Strings.  A string whose characters matter (it is sorted or parsed) is a *)
(* sequence of one-character strings; Str turns it into the string it       *)
(* spells.                                                                  *)

RECURSIVE Str(_)
Str(cs) == IF cs = <<>> THEN "" ELSE Head(cs) \o Str(Tail(cs))

\* UTF-16 code units of the characters used
CharCode ==
    [c \in {" ", "*", "+", "-", ".", "0", "1", "2", "3", "4", "5", "6", "7", "8", "9",
            "A", "B", "E", "L", "R", "a", "b", "e", "l", "n", "o", "p", "r", "x", "y"} |->
        CASE c = " " -> 32 [] c = "*" -> 42 [] c = "+" -> 43 [] c = "-" -> 45 [] c = "." -> 46
          [] c = "0" -> 48 [] c = "1" -> 49 [] c = "2" -> 50 [] c = "3" -> 51
          [] c = "4" -> 52 [] c = "5" -> 53 [] c = "6" -> 54 [] c = "7" -> 55
          [] c = "8" -> 56 [] c = "9" -> 57
          [] c = "A" -> 65 [] c = "B" -> 66 [] c = "E" -> 69 [] c = "L" -> 76 [] c = "R" -> 82
          [] c = "a" -> 97 [] c = "b" -> 98 [] c = "e" -> 101 [] c = "l" -> 108
          [] c = "n" -> 110 [] c = "o" -> 111 [] c = "p" -> 112 [] c = "r" -> 114
          [] c = "x" -> 120 [] c = "y" -> 121]

\* String.prototype.toLowerCase: A..Z become a..z, the rest is kept
toLowerCase(cs) ==
    [i \in DOMAIN cs |-> IF CharCode[cs[i]] >= 65 /\ CharCode[cs[i]] <= 90
                         THEN CHOOSE c \in DOMAIN CharCode :
                                  CharCode[c] = CharCode[cs[i]] + 32
                         ELSE cs[i]]

\* String.prototype.substring(0, end)
substring0(cs, end) == SubSeq(cs, 1, IF end < Len(cs) THEN end ELSE Len(cs))

\* one level of the comparison, by the collation weights of the characters.
\* At the primary level a letter weighs by its place in the alphabet whatever
\* its case, and the other characters come before the letters; at the case
\* level lower case comes before upper.
RECURSIVE compareAtLevel(_, _, _)
compareAtLevel(a, b, level) ==
    IF a = <<>> /\ b = <<>> THEN 0
    ELSE IF a = <<>> THEN 0 - 1
    ELSE IF b = <<>> THEN 1
    ELSE LET weight(c) ==
                 LET n == CharCode[c]
                     upper == n >= 65 /\ n <= 90
                     lower == n >= 97 /\ n <= 122
                 IN IF level = "primary"
                    THEN (IF lower THEN 1000 + (n - 97)
                          ELSE IF upper THEN 1000 + (n - 65) ELSE n)
                    ELSE (IF upper THEN 1 ELSE 0)
         IN IF weight(Head(a)) < weight(Head(b)) THEN 0 - 1
            ELSE IF weight(Head(a)) > weight(Head(b)) THEN 1
            ELSE compareAtLevel(Tail(a), Tail(b), level)

\* String.prototype.localeCompare in the default locale: negative, zero or
\* positive; the strings are compared by their letters first and by the case
\* of the letters when the letters are the same
localeCompare(a, b) ==
    IF compareAtLevel(a, b, "primary") # 0 THEN compareAtLevel(a, b, "primary")
    ELSE compareAtLevel(a, b, "case")

IsDigit(c) == CharCode[c] >= 48 /\ CharCode[c] <= 57

\* a < b as JavaScript compares strings: by code unit, a proper prefix first
RECURSIVE StrLess(_, _)
StrLess(a, b) ==
    IF b = <<>> THEN FALSE
    ELSE IF a = <<>> THEN TRUE
    ELSE IF CharCode[Head(a)] # CharCode[Head(b)] THEN CharCode[Head(a)] < CharCode[Head(b)]
    ELSE StrLess(Tail(a), Tail(b))

\* Array.prototype.sort with the default comparator: ascending by StrLess, stable
RECURSIVE InsertSorted(_, _)
InsertSorted(x, sorted) ==
    IF sorted = <<>> THEN <<x>>
    ELSE IF StrLess(x, Head(sorted)) THEN <<x>> \o sorted
    ELSE <<Head(sorted)>> \o InsertSorted(x, Tail(sorted))

RECURSIVE SortStrings(_)
SortStrings(xs) ==
    IF xs = <<>> THEN <<>>
    ELSE InsertSorted(xs[Len(xs)], SortStrings(SubSeq(xs, 1, Len(xs) - 1)))

\* Array.prototype.join
RECURSIVE Join(_, _)
Join(xs, sep) ==
    IF xs = <<>> THEN <<>>
    ELSE IF Len(xs) = 1 THEN xs[1]
    ELSE xs[1] \o sep \o Join(Tail(xs), sep)

\* the set of the elements of a sequence
Range(xs) == {xs[i] : i \in DOMAIN xs}

----------------------------------------------------------------------------
(* The SDK's Result builder.  addEntity / addLink return the record already  *)
(* held under the same type and identifier when there is one (the friend    *)
(* expansion adds the same person once per friend and relies on it).  An    *)
(* entity handle is its key; `log` keeps every add-call in call order, with *)
(* the source row the call was made for.                                    *)

NoRef == [none |-> TRUE]
NoProps == [n \in {} |-> n]

NewResult == [entities |-> <<>>, links |-> <<>>, log |-> <<>>]

EntityKey(kind, type, id) == [kind |-> kind, type |-> type, id |-> id]

HasEntity(r, key) == \E i \in DOMAIN r.entities : r.entities[i].key = key

HasLink(r, type, id) ==
    \E i \in DOMAIN r.links : r.links[i].type = type /\ r.links[i].id = id

\* A result record identifier is a plain string or a source identifier
StringId(s) == [string |-> s]
IsStringId(id) == "string" \in DOMAIN id

Result_addEntityWithSourceIdentifier(r, type, sourceId, src) ==
    LET key == EntityKey("record", type, sourceId)
    IN [r EXCEPT
          !.entities = IF HasEntity(r, key) THEN @
                       ELSE Append(@, [key |-> key, props |-> NoProps, sourceRef |-> NoRef]),
          !.log = Append(@, [op |-> "addEntity", key |-> key, src |-> src])]

Result_addEntity(r, type, id, src) ==
    Result_addEntityWithSourceIdentifier(r, type, StringId(id), src)

Result_addEntityFromSeed(r, seed) ==
    LET key == EntityKey("seed", seed.type, StringId(seed.seedId))
    IN [r EXCEPT
          !.entities = IF HasEntity(r, key) THEN @
                       ELSE Append(@, [key |-> key, props |-> NoProps, sourceRef |-> NoRef]),
          !.log = Append(@, [op |-> "addEntityFromSeed", key |-> key, src |-> seed.seedId])]

Entity_setProperties(r, key, newProps) ==
    [r EXCEPT !.entities =
        [i \in DOMAIN @ |-> IF @[i].key = key
                            THEN [@[i] EXCEPT !.props = newProps @@ @]
                            ELSE @[i]]]

Entity_setSourceReference(r, key, ref) ==
    [r EXCEPT !.entities =
        [i \in DOMAIN @ |-> IF @[i].key = key THEN [@[i] EXCEPT !.sourceRef = ref] ELSE @[i]]]

Result_addLinkWithSourceIdentifier(r, type, id, fromEnd, toEnd) ==
    [r EXCEPT
       !.links = IF HasLink(r, type, id) THEN @
                 ELSE Append(@, [type |-> type, id |-> id, fromEnd |-> fromEnd,
                                 toEnd |-> toEnd, sourceRef |-> NoRef]),
       !.log = Append(@, [op |-> "addLink", type |-> type, id |-> id,
                          fromEnd |-> fromEnd, toEnd |-> toEnd])]

Result_addLink(r, type, id, fromEnd, toEnd) ==
    Result_addLinkWithSourceIdentifier(r, type, StringId(id), fromEnd, toEnd)

Link_setSourceReference(r, type, id, ref) ==
    [r EXCEPT !.links =
        [i \in DOMAIN @ |-> IF @[i].type = type /\ @[i].id = id
                            THEN [@[i] EXCEPT !.sourceRef = ref] ELSE @[i]]]

----------------------------------------------------------------------------
(* The example connector: schema names, the data set, the seeds *)

Person == "Person"
Tweet == "Tweet"
Friendswith == "Friendswith"

customSourceIdentifierType == "This value should be unique to your data source - do not reuse"
otherSourceIdentifierType == "OI.DAOD"

createCustomSourceIdentifier(id) == [type |-> customSourceIdentifierType, key |-> <<id>>]

P1 == <<"p", "1">>
P2 == <<"p", "2">>
P10 == <<"p", "1", "0">>
P9 == <<"p", "9">>
PersonIds == {P1, P2, P10}

\* The in-memory data set of people as it is loaded.  `row` is the position of
\* the record in the data set; names and dates are sequences of characters.
peopleData ==
    << [row |-> 1, id |-> P1, forename |-> <<"A", "n", "n">>, surname |-> <<"L", "e", "e">>,
        dob |-> <<"1", "9", "8", "0", "-", "0", "5", "-", "0", "1">>,
        dobYear |-> 1980, ssn |-> "111-11-1111", issuedDateAndTime |-> "1998-01-01T09:00:00",
        friends |-> <<P2>>],
       [row |-> 2, id |-> P2, forename |-> <<"B", "o", "b">>, surname |-> <<"L", "e", "e">>,
        dob |-> <<"1", "9", "7", "5", "-", "1", "1", "-", "2", "3">>,
        dobYear |-> 1975, ssn |-> "222-22-2222", issuedDateAndTime |-> "1993-06-15T14:30:00",
        friends |-> <<P1, P10>>],
       [row |-> 3, id |-> P10, forename |-> <<"A", "n", "n">>, surname |-> <<"R", "a", "y">>,
        dob |-> <<"1", "9", "8", "0", "-", "1", "2", "-", "3", "1">>,
        dobYear |-> 1980, ssn |-> "333-33-3333", issuedDateAndTime |-> "1999-03-02T11:45:00",
        friends |-> <<P2, P9>>] >>

\* lookupPeople(predicate): the people of the data set the predicate holds of,
\* in data set order (a predicate is the function from the people to its
\* truth value)
lookupPeople(predicate) == SelectSeq(dataSet, LAMBDA person : predicate[person])

\* sequences of 1..n distinct elements of S
InjectiveSeqs(S, n) ==
    UNION {{q \in [1..k -> S] : \A i, j \in 1..k : i # j => q[i] # q[j]} : k \in 1..n}

\* A Person seed: it carries one connector key and one custom source identifier
\* for each person record merged into the charted item, and beside them a
\* connector key of another item type and a source identifier of another type.
PersonSeed(seedId, ids) ==
    [seedId |-> seedId, type |-> Person,
     connectorKeys |-> [i \in DOMAIN ids |-> [type |-> Person, id |-> ids[i]]]
                         \o << [type |-> Tweet, id |-> P10] >>,
     sourceIdentifiers |-> [i \in DOMAIN ids |-> [type |-> customSourceIdentifierType,
                                                  key |-> <<ids[i]>>]]
                             \o << [type |-> otherSourceIdentifierType, key |-> <<P10>>] >>]

SeedIdOf(i) == "seed" \o ToString(i)

\* ISeeds of a friend-expand service: 1..MaxSeeds seeds
PersonSeedLists ==
    UNION {{[i \in 1..k |-> PersonSeed(SeedIdOf(i), q[i])] :
                q \in [1..k -> InjectiveSeqs(PersonIds, MaxKeys)]} : k \in 1..MaxSeeds}

\* seed.connectorKeysByType(type)
connectorKeysByType(seed, type) == SelectSeq(seed.connectorKeys, LAMBDA k : k.type = type)

----------------------------------------------------------------------------
(* The example connector: building the result *)

\* new Date().getFullYear(), read off the wall clock
currentYear == IF clock < NewYearAt THEN 2026 ELSE 2027

exampleSourceReference ==
    [name |-> "Example source name", type |-> "Example source type",
     description |-> "An example source reference from a connected data source"]

\* An id factory, by name: the default (id) => id, or createCustomSourceIdentifier
ApplyIdFactory(idFactory, id) ==
    IF idFactory = "createCustomSourceIdentifier" THEN createCustomSourceIdentifier(id)
    ELSE StringId(id)

\* the handle of the entity addPersonToResult returns
personEntityOf(person, idFactory) ==
    EntityKey("record", Person, ApplyIdFactory(idFactory, Str(person.id)))

\* variant: the date of birth is set from the date of the run
addPersonToResult_dobFromClock(person, result, idFactory) ==
    LET id == ApplyIdFactory(idFactory, Str(person.id))
        src == [table |-> "people", row |-> person.row]
        r1 == IF IsStringId(id) THEN Result_addEntity(result, Person, id.string, src)
              ELSE Result_addEntityWithSourceIdentifier(result, Person, id, src)
        resultEntity == personEntityOf(person, idFactory)
        r2 == Entity_setProperties(r1, resultEntity,
                  [n \in {"First Name", "Last Name", "Year of Birth", "Age", "SSN",
                          "SSN Issued Date and Time"} |->
                      CASE n = "First Name" -> Str(person.forename)
                        [] n = "Last Name" -> Str(person.surname)
                        [] n = "Year of Birth" -> ToString(currentYear)
                        [] n = "Age" -> [num |-> currentYear - person.dobYear]
                        [] n = "SSN" -> person.ssn
                        [] n = "SSN Issued Date and Time" ->
                               [localDateAndTime |-> person.issuedDateAndTime,
                                timeZoneId |-> "Europe/London", isDST |-> FALSE]])
    IN Entity_setSourceReference(r2, resultEntity, exampleSourceReference)

addPersonToResult(person, result, idFactory) ==
    LET id == ApplyIdFactory(idFactory, Str(person.id))
        src == [table |-> "people", row |-> person.row]
        r1 == IF IsStringId(id) THEN Result_addEntity(result, Person, id.string, src)
              ELSE Result_addEntityWithSourceIdentifier(result, Person, id, src)
        resultEntity == personEntityOf(person, idFactory)
        r2 == Entity_setProperties(r1, resultEntity,
                  [n \in {"First Name", "Last Name", "Year of Birth", "Age", "SSN",
                          "SSN Issued Date and Time"} |->
                      CASE n = "First Name" -> Str(person.forename)
                        [] n = "Last Name" -> Str(person.surname)
                        [] n = "Year of Birth" -> Str(person.dob)
                        [] n = "Age" -> [num |-> currentYear - person.dobYear]
                        [] n = "SSN" -> person.ssn
                        [] n = "SSN Issued Date and Time" ->
                               [localDateAndTime |-> person.issuedDateAndTime,
                                timeZoneId |-> "Europe/London", isDST |-> FALSE]])
    IN Entity_setSourceReference(r2, resultEntity, exampleSourceReference)

\* variant: only the first connector key is read
extractIdsFromConnectorKeys_firstOnly(connectorKeys) ==
    IF connectorKeys = <<>> THEN {} ELSE {connectorKeys[1].id}

extractIdsFromConnectorKeys(connectorKeys) == {connectorKeys[i].id : i \in DOMAIN connectorKeys}

\* the extractIdsFromSeed callback of exampleSeededSearch2
connectorKeyIdsOfSeed(seed) == extractIdsFromConnectorKeys(connectorKeysByType(seed, Person))

\* variant: the type of the source identifiers is not looked at
customSourceIdsOfSeed_anyType(seed) ==
    {seed.sourceIdentifiers[i].key[1] : i \in DOMAIN seed.sourceIdentifiers}

\* the extractIdsFromSeed callback of exampleSeededSearch2WithCustomSourceIdentifiers
customSourceIdsOfSeed(seed) ==
    LET matching == SelectSeq(seed.sourceIdentifiers,
                              LAMBDA id : id.type = customSourceIdentifierType)
    IN {matching[i].key[1] : i \in DOMAIN matching}

ApplyExtractIdsFromSeed(extractIdsFromSeed, seed) ==
    IF extractIdsFromSeed = "customSourceIdsOfSeed" THEN customSourceIdsOfSeed(seed)
    ELSE connectorKeyIdsOfSeed(seed)

\* variant: the two ids are joined in the order person, friend
friendLinkKey_unsorted(personId, friendId) == Str(Join(<<personId, friendId>>, <<"-">>))

\* variant: join() with its default separator
friendLinkKey_defaultSeparator(personId, friendId) ==
    Str(Join(SortStrings(<<personId, friendId>>), <<",">>))

\* [person.id, friend.id].sort().join('-')
friendLinkKey(personId, friendId) == Str(Join(SortStrings(<<personId, friendId>>), <<"-">>))

\* the body of `for (const friend of friends)`
addFriendLink(person, friend, result, idFactory) ==
    LET r1 == addPersonToResult(person, result, idFactory)
        r2 == addPersonToResult(friend, r1, idFactory)
        personEntity == personEntityOf(person, idFactory)
        friendEntity == personEntityOf(friend, idFactory)
        linkId == ApplyIdFactory(idFactory, friendLinkKey(person.id, friend.id))
    IN IF IsStringId(linkId)
       THEN Result_addLink(r2, Friendswith, linkId.string, personEntity, friendEntity)
       ELSE Result_addLinkWithSourceIdentifier(r2, Friendswith, linkId, personEntity, friendEntity)

RECURSIVE forFriends(_, _, _, _)
forFriends(person, friends, result, idFactory) ==
    IF friends = <<>> THEN result
    ELSE forFriends(person, Tail(friends),
                    addFriendLink(person, Head(friends), result, idFactory), idFactory)

\* the friends of a person that the data set holds
friendsOf(person) ==
    lookupPeople([friend \in Range(dataSet) |-> friend.id \in Range(person.friends)])

RECURSIVE forPeople(_, _, _)
forPeople(people, result, idFactory) ==
    IF people = <<>> THEN result
    ELSE forPeople(Tail(people),
                   forFriends(Head(people), friendsOf(Head(people)), result, idFactory),
                   idFactory)

\* the people in the data set for a seed
peopleOfSeed(seed, extractIdsFromSeed) ==
    lookupPeople([person \in Range(dataSet) |->
                     person.id \in ApplyExtractIdsFromSeed(extractIdsFromSeed, seed)])

RECURSIVE forSeeds(_, _, _, _)
forSeeds(seedEntities, result, extractIdsFromSeed, idFactory) ==
    IF seedEntities = <<>> THEN result
    ELSE forSeeds(Tail(seedEntities),
                  forPeople(peopleOfSeed(Head(seedEntities), extractIdsFromSeed), result,
                            idFactory),
                  extractIdsFromSeed, idFactory)

getFriendsLinkedToSeeds(seedEntities, extractIdsFromSeed, idFactory) ==
    forSeeds(seedEntities, NewResult, extractIdsFromSeed, idFactory)


----------------------------------------------------------------------------
(* The NYPD connector: the rows of the data set, the HTTP responses *)

Complaint == "Complaint"
Location == "Location"
Locatedat == "Locatedat"
Suspectof == "Suspectof"
Victimof == "Victimof"

\* a JavaScript number: [num |-> n], or NaN
NaN == [nan |-> TRUE]
Num(n) == [num |-> n]
IsNaN(v) == "nan" \in DOMAIN v

RECURSIVE SkipSpaces(_)
SkipSpaces(cs) == IF cs # <<>> /\ Head(cs) = " " THEN SkipSpaces(Tail(cs)) ELSE cs

\* the value of the leading decimal digits of cs after acc, NaN when there is
\* none (seen says that a digit was read)
RECURSIVE LeadingDigits(_, _, _)
LeadingDigits(cs, acc, seen) ==
    IF cs # <<>> /\ IsDigit(Head(cs))
    THEN LeadingDigits(Tail(cs), 10 * acc + (CharCode[Head(cs)] - 48), TRUE)
    ELSE IF seen THEN Num(acc) ELSE NaN

\* parseInt(string, 10): leading white space is skipped, a sign is read, then
\* the digits up to the first character that is none
parseInt(cs) ==
    LET t == SkipSpaces(cs)
        negative == t # <<>> /\ Head(t) = "-"
        digits == IF t # <<>> /\ Head(t) \in {"+", "-"} THEN Tail(t) ELSE t
        v == LeadingDigits(digits, 0, FALSE)
    IN IF IsNaN(v) \/ ~negative THEN v ELSE Num(0 - v.num)

Row(num, boro, pct, jurisdiction, ky, lawCat) ==
    [cmplnt_num |-> num, crm_atpt_cptd_cd |-> "COMPLETED", jurisdiction_code |-> jurisdiction,
     ky_cd |-> ky, law_cat_cd |-> lawCat, ofns_desc |-> "PETIT LARCENY",
     addr_pct_cd |-> pct, boro_nm |-> boro,
     latitude |-> <<"4", "0", ".", "6">>, longitude |-> <<"-", "7", "3", ".", "9">>,
     vic_age_group |-> "25-44", vic_race |-> "WHITE", vic_sex |-> "F",
     susp_age_group |-> "18-24", susp_race |-> "UNKNOWN", susp_sex |-> "M"]

\* The rows the remote data set may answer with: two complaints at the same
\* location, one with a precinct code that is no number, one with codes that
\* are no numbers.
RowUniverse ==
    { Row("100", "BROOKLYN", <<"1">>, <<"0">>, <<"3", "4", "1">>, "MISDEMEANOR"),
      Row("101", "BROOKLYN", <<"1">>, <<"2">>, <<"1", "0", "5">>, "FELONY"),
      Row("102", "BRONX", <<"x">>, <<"0">>, <<"3", "4", "1">>, "MISDEMEANOR"),
      Row("103", "QUEENS", <<"7", "5">>, <<"x", "x">>, <<"x">>, "VIOLATION") }

\* the HTTP responses: status, status text, whether the body is JSON, and the
\* rows it then holds
Responses ==
    {[status |-> 200, statusText |-> "OK", isJson |-> TRUE, body |-> <<>>],
     [status |-> 200, statusText |-> "OK", isJson |-> FALSE, body |-> <<>>],
     [status |-> 204, statusText |-> "No Content", isJson |-> FALSE, body |-> <<>>],
     [status |-> 404, statusText |-> "Not Found", isJson |-> TRUE, body |-> <<>>],
     [status |-> 500, statusText |-> "Internal Server Error", isJson |-> FALSE, body |-> <<>>]}
    \cup {[status |-> 200, statusText |-> "OK", isJson |-> TRUE, body |-> rows] :
              rows \in InjectiveSeqs(RowUniverse, MaxRows)}

Threw(error) == [threw |-> TRUE, error |-> error]
Value(v) == [threw |-> FALSE, value |-> v]

\* variant: the status of the response is not looked at
requestData_statusIgnored(resp) ==
    IF resp.isJson
    THEN Value(resp.body)
    ELSE Threw([name |-> "FetchError", message |-> "invalid json response body"])

\* requestData, resumed with the response of its fetch
requestData(resp) ==
    IF resp.status = 200
    THEN IF resp.isJson
         THEN Value(resp.body)
         ELSE Threw([name |-> "FetchError", message |-> "invalid json response body"])
    ELSE Threw([name |-> "Error", message |-> resp.statusText])

baseUrl == "https://data.cityofnewyork.us/resource/7x9x-zpz6.json"
token == ""

\* getUrl: the base URL and its search parameters, in order
getUrl(params) ==
    [base |-> baseUrl,
     searchParams |-> (IF token # "" THEN << <<"$$app_token", token>> >> ELSE <<>>) \o params]

----------------------------------------------------------------------------
(* The NYPD connector: building the result.  `i` is the position of the row *)
(* in the fetched data.                                                     *)

exampleSourceRef ==
    [name |-> "NYPD Complaint Dataset", type |-> "Open source data",
     description |->
         "A source reference to the corresponding record from the NYPD Complaint Dataset."]

RowSrc(i) == [table |-> "complaints", row |-> i]

locationEntityOf(datum) ==
    EntityKey("record", Location,
              StringId("Borough: " \o datum.boro_nm \o " Precinct: " \o Str(datum.addr_pct_cd)))

addLocation(datum, result, i) ==
    LET locationId == "Borough: " \o datum.boro_nm \o " Precinct: " \o Str(datum.addr_pct_cd)
        r1 == Result_addEntity(result, Location, locationId, RowSrc(i))
        entity == locationEntityOf(datum)
        r2 == Entity_setProperties(r1, entity,
                  [n \in {"Precinct Code", "Borough Name", "Coordinates"} |->
                      CASE n = "Precinct Code" -> parseInt(datum.addr_pct_cd)
                        [] n = "Borough Name" -> datum.boro_nm
                        [] n = "Coordinates" ->
                               [type |-> "Point",
                                coordinates |-> <<parseInt(datum.latitude),
                                                  parseInt(datum.longitude)>>]])
    IN Entity_setSourceReference(r2, entity, exampleSourceRef)

complaintEntityOf(datum) ==
    EntityKey("record", Complaint, StringId("Complaint: " \o datum.cmplnt_num))

addComplaint(datum, result, i) ==
    LET complaintId == "Complaint: " \o datum.cmplnt_num
        r1 == Result_addEntity(result, Complaint, complaintId, RowSrc(i))
        entity == complaintEntityOf(datum)
        r2 == Entity_setProperties(r1, entity,
                  [n \in {"Complaint Number", "Crime Status", "Jurisdiction Code",
                          "Offence Classification Code", "Level Of Offence",
                          "Offence Description"} |->
                      CASE n = "Complaint Number" -> datum.cmplnt_num
                        [] n = "Crime Status" -> datum.crm_atpt_cptd_cd
                        [] n = "Jurisdiction Code" -> parseInt(datum.jurisdiction_code)
                        [] n = "Offence Classification Code" -> parseInt(datum.ky_cd)
                        [] n = "Level Of Offence" -> datum.law_cat_cd
                        [] n = "Offence Description" -> datum.ofns_desc])
    IN Entity_setSourceReference(r2, entity, exampleSourceRef)

suspectEntityOf(datum) ==
    EntityKey("record", Person, StringId("Suspect: " \o datum.cmplnt_num))

addSuspect(datum, result, i) ==
    LET suspectId == "Suspect: " \o datum.cmplnt_num
        r1 == Result_addEntity(result, Person, suspectId, RowSrc(i))
        entity == suspectEntityOf(datum)
        r2 == Entity_setProperties(r1, entity,
                  [n \in {"Age Group", "Race", "Sex"} |->
                      CASE n = "Age Group" -> datum.susp_age_group
                        [] n = "Race" -> datum.susp_race
                        [] n = "Sex" -> datum.susp_sex])
    IN Entity_setSourceReference(r2, entity, exampleSourceRef)

victimEntityOf(datum) ==
    EntityKey("record", Person, StringId("Victim: " \o datum.cmplnt_num))

addVictim(datum, result, i) ==
    LET victimId == "Victim: " \o datum.cmplnt_num
        r1 == Result_addEntity(result, Person, victimId, RowSrc(i))
        entity == victimEntityOf(datum)
        r2 == Entity_setProperties(r1, entity,
                  [n \in {"Age Group", "Race", "Sex"} |->
                      CASE n = "Age Group" -> datum.vic_age_group
                        [] n = "Race" -> datum.vic_race
                        [] n = "Sex" -> datum.vic_sex])
    IN Entity_setSourceReference(r2, entity, exampleSourceRef)

addLink(linkType, id, fromEnd, toEnd, result) ==
    LET r1 == Result_addLink(result, linkType, id, fromEnd, toEnd)
    IN Link_setSourceReference(r1, linkType, StringId(id), exampleSourceRef)

\* variant: the Locatedat link is added from the location to the complaint
getAllRow_locatedatReversed(datum, result, i) ==
    LET r1 == addLocation(datum, result, i)
        r2 == addComplaint(datum, r1, i)
        r3 == addSuspect(datum, r2, i)
        r4 == addVictim(datum, r3, i)
        locationEntity == locationEntityOf(datum)
        complaintEntity == complaintEntityOf(datum)
        suspectEntity == suspectEntityOf(datum)
        victimEntity == victimEntityOf(datum)
        r5 == addLink(Locatedat, datum.cmplnt_num, locationEntity, complaintEntity, r4)
        r6 == addLink(Victimof, datum.cmplnt_num, victimEntity, complaintEntity, r5)
    IN addLink(Suspectof, datum.cmplnt_num, suspectEntity, complaintEntity, r6)

\* the body of the loop of getAll
getAllRow(datum, result, i) ==
    LET r1 == addLocation(datum, result, i)
        r2 == addComplaint(datum, r1, i)
        r3 == addSuspect(datum, r2, i)
        r4 == addVictim(datum, r3, i)
        locationEntity == locationEntityOf(datum)
        complaintEntity == complaintEntityOf(datum)
        suspectEntity == suspectEntityOf(datum)
        victimEntity == victimEntityOf(datum)
        r5 == addLink(Locatedat, datum.cmplnt_num, complaintEntity, locationEntity, r4)
        r6 == addLink(Victimof, datum.cmplnt_num, victimEntity, complaintEntity, r5)
    IN addLink(Suspectof, datum.cmplnt_num, suspectEntity, complaintEntity, r6)

RECURSIVE getAllLoop(_, _, _)
getAllLoop(data, i, result) ==
    IF i > Len(data) THEN result
    ELSE getAllLoop(data, i + 1, getAllRow(data[i], result, i))

\* the loop of findComplaint and of findSimilarComplaint
RECURSIVE complaintsLoop(_, _, _)
complaintsLoop(data, i, result) ==
    IF i > Len(data) THEN result
    ELSE complaintsLoop(data, i + 1, addComplaint(data[i], result, i))

seedEntityOf(seed) == EntityKey("seed", seed.type, StringId(seed.seedId))

\* variant: a Complaint entity is built from the row whatever the seed is
expandRow_complaintAlwaysAdded(seed, datum, result, i) ==
    LET seedEntity == seedEntityOf(seed)
        r1 == addComplaint(datum, result, i)
        complaintEntity == complaintEntityOf(datum)
        r2 == IF seed.type = Location THEN r1 ELSE addLocation(datum, r1, i)
        locationEntity == IF seed.type = Location THEN seedEntity ELSE locationEntityOf(datum)
        r3 == addSuspect(datum, r2, i)
        r4 == addVictim(datum, r3, i)
        suspectEntity == suspectEntityOf(datum)
        victimEntity == victimEntityOf(datum)
        r5 == addLink(Locatedat, datum.cmplnt_num, complaintEntity, locationEntity, r4)
        r6 == addLink(Victimof, datum.cmplnt_num, victimEntity, complaintEntity, r5)
    IN addLink(Suspectof, datum.cmplnt_num, suspectEntity, complaintEntity, r6)

\* the body of the loop of expand
expandRow(seed, datum, result, i) ==
    LET seedEntity == seedEntityOf(seed)
        r1 == IF seed.type = Complaint THEN result ELSE addComplaint(datum, result, i)
        complaintEntity == IF seed.type = Complaint THEN seedEntity ELSE complaintEntityOf(datum)
        r2 == IF seed.type = Location THEN r1 ELSE addLocation(datum, r1, i)
        locationEntity == IF seed.type = Location THEN seedEntity ELSE locationEntityOf(datum)
        r3 == addSuspect(datum, r2, i)
        r4 == addVictim(datum, r3, i)
        suspectEntity == suspectEntityOf(datum)
        victimEntity == victimEntityOf(datum)
        r5 == addLink(Locatedat, datum.cmplnt_num, complaintEntity, locationEntity, r4)
        r6 == addLink(Victimof, datum.cmplnt_num, victimEntity, complaintEntity, r5)
    IN addLink(Suspectof, datum.cmplnt_num, suspectEntity, complaintEntity, r6)

RECURSIVE expandLoop(_, _, _, _)
expandLoop(seed, data, i, result) ==
    IF i > Len(data) THEN result
    ELSE expandLoop(seed, data, i + 1, expandRow(seed, data[i], result, i))

\* variant: the seed is not added to the result
expandBody_seedNotAdded(seed, data) == expandLoop(seed, data, 1, NewResult)

\* expand, from the fetched data on
expandBody(seed, data) == expandLoop(seed, data, 1, Result_addEntityFromSeed(NewResult, seed))

\* variant: the people are added whatever the 'Person' condition is
expandWithConditionsRow_conditionIgnored(isPerson, seed, datum, result, i) ==
    LET seedEntity == seedEntityOf(seed)
        r1 == addSuspect(datum, result, i)
        r2 == addVictim(datum, r1, i)
        suspectEntity == suspectEntityOf(datum)
        victimEntity == victimEntityOf(datum)
        r3 == addLink(Suspectof, datum.cmplnt_num, suspectEntity, seedEntity, r2)
        r4 == addLink(Victimof, datum.cmplnt_num, victimEntity, seedEntity, r3)
        r6 == addLocation(datum, r4, i)
        locationEntity == locationEntityOf(datum)
    IN addLink(Locatedat, datum.cmplnt_num, seedEntity, locationEntity, r6)

\* the body of the loop of expandWithConditions
expandWithConditionsRow(isPerson, seed, datum, result, i) ==
    LET seedEntity == seedEntityOf(seed)
        r1 == addSuspect(datum, result, i)
        r2 == addVictim(datum, r1, i)
        suspectEntity == suspectEntityOf(datum)
        victimEntity == victimEntityOf(datum)
        r3 == addLink(Suspectof, datum.cmplnt_num, suspectEntity, seedEntity, r2)
        r4 == addLink(Victimof, datum.cmplnt_num, victimEntity, seedEntity, r3)
        r5 == IF isPerson THEN r4 ELSE result
        r6 == addLocation(datum, r5, i)
        locationEntity == locationEntityOf(datum)
    IN addLink(Locatedat, datum.cmplnt_num, seedEntity, locationEntity, r6)

RECURSIVE expandWithConditionsLoop(_, _, _, _, _)
expandWithConditionsLoop(isPerson, seed, data, i, result) ==
    IF i > Len(data) THEN result
    ELSE expandWithConditionsLoop(isPerson, seed, data, i + 1,
                                  expandWithConditionsRow(isPerson, seed, data[i], result, i))

\* expandWithConditions, from the fetched data on
expandWithConditionsBody(isPerson, seed, data) ==
    expandWithConditionsLoop(isPerson, seed, data, 1, Result_addEntityFromSeed(NewResult, seed))

----------------------------------------------------------------------------
(* Values of seed properties and of conditions: a string [str |-> s], a      *)
(* string given by its characters [chars |-> cs], a number, a boolean, or   *)
(* undefined                                                                *)

Undefined == [undefined |-> TRUE]
StrV(s) == [str |-> s]
CharsV(cs) == [chars |-> cs]
BoolV(b) == [bool |-> b]

\* JavaScript's falsy values among these
Falsy(v) ==
    \/ "undefined" \in DOMAIN v
    \/ IsNaN(v)
    \/ ("str" \in DOMAIN v /\ v.str = "")
    \/ ("chars" \in DOMAIN v /\ v.chars = <<>>)
    \/ ("num" \in DOMAIN v /\ v.num = 0)
    \/ ("bool" \in DOMAIN v /\ ~v.bool)

\* v || ''
OrEmpty(v) == IF Falsy(v) THEN StrV("") ELSE v

\* `${v}` for a string or a number that is no NaN
Template(v) == IF "str" \in DOMAIN v THEN v.str ELSE ToString(v.num)

\* seed.getProperty(type, name)
getProperty(seed, type, name) ==
    IF seed.type = type /\ name \in DOMAIN seed.props THEN seed.props[name] ELSE Undefined

ComplaintSeeds ==
    { [seedId |-> "seedC", type |-> Complaint,
       props |-> [n \in {"Complaint Number", "Level Of Offence"} |->
                     IF n = "Complaint Number" THEN StrV("100") ELSE StrV("MISDEMEANOR")]],
      [seedId |-> "seedC0", type |-> Complaint, props |-> NoProps] }

LocationSeeds ==
    { [seedId |-> "seedL", type |-> Location,
       props |-> [n \in {"Borough Name", "Precinct Code"} |->
                     IF n = "Borough Name" THEN StrV("BROOKLYN") ELSE Num(1)]] }

boroughPossibleValues == {"BROOKLYN", "BRONX", "MANHATTAN", "QUEENS", "STATEN ISLAND"}
lawCategoryPossibleValues == {"FELONY", "MISDEMEANOR", "VIOLATION"}

----------------------------------------------------------------------------
(* Service invocations *)

NoResult == [none |-> TRUE]
NoError == [none |-> TRUE]
NoResponse == [none |-> TRUE]
NoRequest == [none |-> TRUE]
NoToken == [none |-> TRUE]
NoArgs == [none |-> TRUE]
NoConfig == [none |-> TRUE]

\* `substatuses` is the IAsyncState of the invocation: the substatus messages
\* the handler added, in order
Idle == [service |-> "none", pc |-> "idle", args |-> NoArgs, request |-> NoRequest,
         result |-> NoResult, error |-> NoError, substatuses |-> <<>>]

\* the handler returned `result`
Returned(service, args, request, result) ==
    [service |-> service, pc |-> "returned", args |-> args, request |-> request,
     result |-> result, error |-> NoError, substatuses |-> <<>>]

\* the handler threw `error`
Failed(service, args, request, error) ==
    [service |-> service, pc |-> "failed", args |-> args, request |-> request,
     result |-> NoResult, error |-> error, substatuses |-> <<>>]

\* the handler waits for the response of its fetch
Fetching(service, args, request) ==
    [service |-> service, pc |-> "fetching", args |-> args, request |-> request,
     result |-> NoResult, error |-> NoError, substatuses |-> <<>>]

Init ==
    /\ inv = Idle
    /\ fetches = 0
    /\ response = NoResponse
    /\ clock = 0
    /\ heldToken = NoToken
    /\ other = [inv |-> Idle, fetches |-> 0, response |-> NoResponse]
    /\ dataSet = peopleData
    /\ config = NoConfig

\* a handler that fetches nothing, run to its end
RunSync(outcome) ==
    /\ inv.pc = "idle"
    /\ inv' = outcome
    /\ fetches' = 0
    /\ response' = NoResponse

\* a handler of the NYPD connector, up to `await requestData(url)`
CallFetch(service, args, url) ==
    /\ inv.pc = "idle"
    /\ inv' = Fetching(service, args, url)
    /\ fetches' = 1
    /\ response' = NoResponse
    /\ UNCHANGED <<clock, heldToken, other, dataSet, config>>

\* the event loop turns to the other invocation in flight: the invocation at
\* hand, suspended at its await or finished, is set aside
switch ==
    /\ inv.pc # "idle" \/ other.inv.pc # "idle"
    /\ inv' = other.inv
    /\ fetches' = other.fetches
    /\ response' = other.response
    /\ other' = [inv |-> inv, fetches |-> fetches, response |-> response]
    /\ UNCHANGED <<clock, heldToken, dataSet, config>>

\* the gateway hands the outcome to the caller
respond ==
    /\ inv.pc \in {"returned", "failed"}
    /\ inv' = Idle
    /\ fetches' = 0
    /\ response' = NoResponse
    /\ UNCHANGED <<clock, heldToken, other, dataSet, config>>

(* Example connector *)

exampleSeededSearch2 ==
    /\ \E seeds \in PersonSeedLists :
          RunSync(Returned("exampleSeededSearch2", [seeds |-> seeds], NoRequest,
                           getFriendsLinkedToSeeds(seeds, "connectorKeyIdsOfSeed", "identity")))
    /\ UNCHANGED <<clock, heldToken, other, dataSet, config>>

exampleSeededSearch2WithCustomSourceIdentifiers ==
    /\ \E seeds \in PersonSeedLists :
          RunSync(Returned("exampleSeededSearch2WithCustomSourceIdentifiers", [seeds |-> seeds],
                           NoRequest,
                           getFriendsLinkedToSeeds(seeds, "customSourceIdsOfSeed",
                                                   "createCustomSourceIdentifier")))
    /\ UNCHANGED <<clock, heldToken, other, dataSet, config>>

\* A returned entity put on the chart and sent back as a seed: the seed carries
\* the source identifier of the record, and beside it a source identifier of
\* another type.
SeedOfEntity(entity) ==
    [seedId |-> "chart " \o entity.key.id.key[1], type |-> entity.key.type,
     connectorKeys |-> <<>>,
     sourceIdentifiers |-> << [type |-> entity.key.id.type,
                               key |-> <<CHOOSE cs \in PersonIds \cup {P9} :
                                              Str(cs) = entity.key.id.key[1]>>],
                              [type |-> otherSourceIdentifierType, key |-> <<P10>>] >>]

\* the seeds a user makes of the people that the other invocation, a search
\* with custom source identifiers, has returned
ChartedSeedLists ==
    IF other.inv.pc = "returned"
         /\ other.inv.service = "exampleSearchWithCustomSourceIdentifiers"
    THEN {[i \in DOMAIN q |-> SeedOfEntity(q[i])] :
             q \in InjectiveSeqs(Range(other.inv.result.entities), MaxSeeds)}
    ELSE {}

\* exampleSeededSearch2WithCustomSourceIdentifiers on seeds made of returned people
exampleSeededSearch2WithCustomSourceIdentifiers_charted ==
    /\ \E seeds \in ChartedSeedLists :
          RunSync(Returned("exampleSeededSearch2WithCustomSourceIdentifiers",
                           [seeds |-> seeds, charted |-> TRUE], NoRequest,
                           getFriendsLinkedToSeeds(seeds, "customSourceIdsOfSeed",
                                                   "createCustomSourceIdentifier")))
    /\ UNCHANGED <<clock, heldToken, other, dataSet, config>>

getSearchResultsFromDataSource(dataSourceId, searchTerm) ==
    [index \in 1..2 |->
        "tweet " \o ToString(index) \o " containing search term '" \o searchTerm
            \o "'from data source '" \o dataSourceId \o "'"]

RECURSIVE searchResultsLoop(_, _, _)
searchResultsLoop(searchResults, i, result) ==
    IF i > Len(searchResults) THEN result
    ELSE LET r1 == Result_addEntity(result, Tweet, "tweet-1",
                                    [table |-> "searchResults", row |-> i])
             resultEntity == EntityKey("record", Tweet, StringId("tweet-1"))
             r2 == Entity_setProperties(r1, resultEntity,
                       [n \in {"Contents", "User name", "Length"} |->
                           CASE n = "Contents" -> searchResults[i]
                             [] n = "User name" -> "user1"
                             [] n = "Length" -> Num(Len(searchResults[i]))])
         IN searchResultsLoop(searchResults, i + 1, r2)

DataSourceChoices ==
    {Undefined} \cup {StrV(d) : d \in {"dataSource1", "dataSource2", "dataSource3", "dataSource4"}}

canUserSelectRestrictedDataSource(groups) == "RestrictedDataSourceAccess" \in groups

\* the configuration is worked out for a user: every option that is a
\* function of the request information is evaluated with the user's groups:
\* the service's `hide` and `description`, and the `hide` of the 'Choose data
\* source' condition
configure ==
    /\ inv.pc = "idle"
    /\ \E groups \in SUBSET {"DataSourceAccess", "RestrictedDataSourceAccess"} :
          config' = [groups |-> groups,
                     serviceHidden |-> "DataSourceAccess" \notin groups,
                     description |->
                         IF canUserSelectRestrictedDataSource(groups)
                         THEN "A service which can search a selection of data sources"
                         ELSE "A service which can search a single data source",
                     dataSourceHidden |-> canUserSelectRestrictedDataSource(groups)]
    /\ UNCHANGED <<inv, fetches, response, clock, heldToken, other, dataSet>>

searchSelectedDataSource ==
    /\ IF config = NoConfig THEN TRUE ELSE ~config.serviceHidden
    \* a hidden condition cannot be given a value: it comes through as undefined
    /\ \E dataSource \in (IF config # NoConfig /\ config.dataSourceHidden
                           THEN {Undefined} ELSE DataSourceChoices),
          searchTerm \in {"", "smith"} :
          RunSync(Returned("searchSelectedDataSource",
                           [dataSource |-> dataSource, searchTerm |-> searchTerm], NoRequest,
                           searchResultsLoop(
                               getSearchResultsFromDataSource(
                                   (IF Falsy(dataSource) THEN StrV("dataSource1")
                                    ELSE dataSource).str,
                                   searchTerm),
                               1, NewResult)))
    /\ UNCHANGED <<clock, heldToken, other, dataSet, config>>

(* Example connector: the searches by name *)

wildcardSearchTerm == <<"*">>

\* the terms a caller searches for
SearchTerms == {wildcardSearchTerm, <<"a", "n">>, <<"L", "E", "E">>, <<"x">>}

caseInsensitiveContains(source, searchValue) ==
    LET cs == toLowerCase(source)
        searchString == toLowerCase(searchValue)
    IN \* cs.includes(searchString)
       \E k \in 0..(Len(cs) - Len(searchString)) :
           SubSeq(cs, k + 1, k + Len(searchString)) = searchString

RECURSIVE addPeopleLoop(_, _, _)
addPeopleLoop(peopleFound, result, idFactory) ==
    IF peopleFound = <<>> THEN result
    ELSE addPeopleLoop(Tail(peopleFound),
                       addPersonToResult(Head(peopleFound), result, idFactory), idFactory)

findPeople(term, idFactory) ==
    addPeopleLoop(
        lookupPeople([person \in Range(dataSet) |->
                         \/ term = wildcardSearchTerm
                         \/ caseInsensitiveContains(person.forename, term)
                         \/ caseInsensitiveContains(person.surname, term)]),
        NewResult, idFactory)

exampleSearch ==
    /\ \E term \in SearchTerms :
          RunSync(Returned("exampleSearch", [term |-> term], NoRequest,
                           findPeople(term, "identity")))
    /\ UNCHANGED <<clock, heldToken, other, dataSet, config>>

exampleSearchWithCustomSourceIdentifiers ==
    /\ \E term \in SearchTerms :
          RunSync(Returned("exampleSearchWithCustomSourceIdentifiers", [term |-> term],
                           NoRequest, findPeople(term, "createCustomSourceIdentifier")))
    /\ UNCHANGED <<clock, heldToken, other, dataSet, config>>

(* Example connector: 'find like this' *)

\* the seeds of 'find like this': a charted person with or without a first
\* name, a last name and a date of birth
FindLikeThisSeeds ==
    {PersonSeed("seed1", ids) @@
         [props |-> [n \in {"First Name", "Last Name", "Year of Birth"} |->
                        CASE n = "First Name" -> first
                          [] n = "Last Name" -> last
                          [] n = "Year of Birth" -> dob]] :
        ids \in InjectiveSeqs(PersonIds, MaxKeys),
        first \in {Undefined, CharsV(<<"A", "n", "n">>), CharsV(<<"B", "o", "b">>)},
        last \in {Undefined, CharsV(<<"R", "a", "y">>)},
        dob \in {Undefined, CharsV(<<>>),
                 CharsV(<<"1", "9", "8", "0", "-", "0", "1", "-", "0", "1">>),
                 CharsV(<<"1", "9", "7">>)}}

\* variant: the records of the seed are not filtered out
findLikeThis_seedNotExcluded(seed, useYearOfBirth) ==
    LET orEmpty(v) == IF Falsy(v) THEN CharsV(<<>>) ELSE v    \* v || ''
        forename == orEmpty(getProperty(seed, Person, "First Name"))
        surname == orEmpty(getProperty(seed, Person, "Last Name"))
        dob == getProperty(seed, Person, "Year of Birth")
    IN addPeopleLoop(
           lookupPeople([person \in Range(dataSet) |->
               \/ localeCompare(person.forename, forename.chars) = 0
               \/ localeCompare(person.surname, surname.chars) = 0
               \/ (/\ ~Falsy(useYearOfBirth)
                   /\ ~Falsy(dob)
                   /\ substring0(person.dob, 4) = substring0(dob.chars, 4))]),
           NewResult, "identity")

\* the body of exampleSeededSearch1
findLikeThis(seed, useYearOfBirth) ==
    LET orEmpty(v) == IF Falsy(v) THEN CharsV(<<>>) ELSE v    \* v || ''
        forename == orEmpty(getProperty(seed, Person, "First Name"))
        surname == orEmpty(getProperty(seed, Person, "Last Name"))
        dob == getProperty(seed, Person, "Year of Birth")
        connectorKeyIds == extractIdsFromConnectorKeys(connectorKeysByType(seed, Person))
    IN addPeopleLoop(
           lookupPeople([person \in Range(dataSet) |->
               IF person.id \in connectorKeyIds THEN FALSE
               ELSE \/ localeCompare(person.forename, forename.chars) = 0
                    \/ localeCompare(person.surname, surname.chars) = 0
                    \/ (/\ ~Falsy(useYearOfBirth)
                        /\ ~Falsy(dob)
                        /\ substring0(person.dob, 4) = substring0(dob.chars, 4))]),
           NewResult, "identity")

exampleSeededSearch1 ==
    /\ \E seed \in FindLikeThisSeeds,
          useYearOfBirth \in {Undefined, BoolV(TRUE), BoolV(FALSE)} :
          RunSync(Returned("exampleSeededSearch1",
                           [seeds |-> <<seed>>, useYearOfBirth |-> useYearOfBirth], NoRequest,
                           findLikeThis(seed, useYearOfBirth)))
    /\ UNCHANGED <<clock, heldToken, other, dataSet, config>>

(* Example connector: 'edit property values' *)

\* the seeds of 'edit property values'
EditSeedLists ==
    InjectiveSeqs({PersonSeed("seedA", <<P1>>), PersonSeed("seedB", <<P2, P10>>)}, MaxSeeds)

\* seed.isType(type)
isType(seed, type) == seed.type = type

RECURSIVE editSeedsLoop(_, _)
editSeedsLoop(seedEntities, result) ==
    IF seedEntities = <<>> THEN result
    ELSE LET seed == Head(seedEntities)
             r1 == Result_addEntityFromSeed(result, seed)
             resultEntity == EntityKey("seed", seed.type, StringId(seed.seedId))
         IN editSeedsLoop(Tail(seedEntities),
                IF isType(seed, Person)
                THEN Entity_setProperties(r1, resultEntity,
                         [n \in {"Middle Name"} |-> "Returned middle name"])
                ELSE result)

\* variant: the middle name is written to the records of the data set that the
\* seeds stand for
exampleSeededSearch3_writesDataSet ==
    /\ \E seeds \in EditSeedLists :
          /\ RunSync(Returned("exampleSeededSearch3", [seeds |-> seeds], NoRequest,
                              editSeedsLoop(seeds, NewResult)))
          /\ dataSet' = [i \in DOMAIN dataSet |->
                            IF \E k \in DOMAIN seeds : dataSet[i].id \in connectorKeyIdsOfSeed(seeds[k])
                            THEN [dataSet[i] EXCEPT !.forename = <<"R", "e", "x">>]
                            ELSE dataSet[i]]
    /\ UNCHANGED <<clock, heldToken, other, config>>

exampleSeededSearch3 ==
    /\ \E seeds \in EditSeedLists :
          RunSync(Returned("exampleSeededSearch3", [seeds |-> seeds], NoRequest,
                           editSeedsLoop(seeds, NewResult)))
    /\ UNCHANGED <<clock, heldToken, other, dataSet, config>>

(* Example connector: the API-key authenticated service and its authenticator *)

testSecret == "test 2"
expiresIn == 60

\* jwt.sign({}, secret, { expiresIn }) at time `now`
jwtSign(secret, now) ==
    [wellFormed |-> TRUE, secret |-> secret, iat |-> now, exp |-> now + expiresIn]

\* jwt.verify(token, secret) at time `now`: the name of the error, "" when none
jwtVerify(tok, secret, now) ==
    IF ~tok.wellFormed \/ tok.secret # secret THEN "JsonWebTokenError"
    ELSE IF now >= tok.exp THEN "TokenExpiredError"
    ELSE ""

verifyJWT(tok, now) ==
    LET err == jwtVerify(tok, testSecret, now)
    IN IF err # ""
       THEN Threw([name |-> "AuthenticationRequiredError", status |-> 401,
                   title |-> "A '" \o err \o "' occurred when verifying the token."])
       ELSE Value(TRUE)

tweets ==
    << [id |-> "tweet-1", user |-> "user1", contents |-> "My first tweet"],
       [id |-> "tweet-2", user |-> "user2", contents |-> "It's hot today"] >>

RECURSIVE tweetsLoop(_, _)
tweetsLoop(i, result) ==
    IF i > Len(tweets) THEN result
    ELSE LET tweet == tweets[i]
             r1 == Result_addEntity(result, Tweet, tweet.id, [table |-> "tweets", row |-> i])
             resultEntity == EntityKey("record", Tweet, StringId(tweet.id))
             r2 == Entity_setProperties(r1, resultEntity,
                       [n \in {"Contents", "User name", "Length"} |->
                           CASE n = "Contents" -> tweet.contents
                             [] n = "User name" -> tweet.user
                             [] n = "Length" -> Num(Len(tweet.contents))])
         IN tweetsLoop(i + 1, r2)

\* variant: the token is not verified
apiAuthSearchOutcome_notVerified(tok, now) == Value(tweetsLoop(1, NewResult))

\* apiAuthSearch(token) at time `now`: what it returns or throws
apiAuthSearchOutcome(tok, now) ==
    LET verified == verifyJWT(tok, now)
    IN IF verified.threw THEN verified ELSE Value(tweetsLoop(1, NewResult))

\* the tokens a caller may present: the one it holds, one signed with another
\* secret, and a string that is no token
PresentedTokens ==
    (IF heldToken = NoToken THEN {} ELSE {heldToken})
      \cup {jwtSign("another secret", clock),
            [wellFormed |-> FALSE, secret |-> "", iat |-> 0, exp |-> 0]}

apiAuthSearch ==
    /\ \E tok \in PresentedTokens :
          LET outcome == apiAuthSearchOutcome(tok, clock)
          IN RunSync(IF outcome.threw
                     THEN Failed("apiAuthSearch", [token |-> tok], NoRequest, outcome.error)
                     ELSE Returned("apiAuthSearch", [token |-> tok], NoRequest, outcome.value))
    /\ UNCHANGED <<clock, heldToken, other, dataSet, config>>

ApiKeys == {"Example", "example", "EXAMPLE", "", "Example "}

\* variant: the key is compared without regard to case
loginApiKeyOutcome_caseInsensitive(apikey, now) ==
    IF apikey \in {"Example", "example", "EXAMPLE"}
    THEN Value(jwtSign(testSecret, now))
    ELSE Threw([name |-> "DetailedError", title |-> "Invalid credentials",
                detail |-> "Refer to the authenticator configuration for details.",
                status |-> 401, type |-> "https://example.com", instance |-> "instance url"])

\* loginApiKey(apikey) at time `now`: the token it returns, or what it throws
loginApiKeyOutcome(apikey, now) ==
    IF apikey = "Example"
    THEN Value(jwtSign(testSecret, now))
    ELSE Threw([name |-> "DetailedError", title |-> "Invalid credentials",
                detail |-> "Refer to the authenticator configuration for details.",
                status |-> 401, type |-> "https://example.com", instance |-> "instance url"])

loginApiKey ==
    \E apikey \in ApiKeys :
        LET outcome == loginApiKeyOutcome(apikey, clock)
        IN /\ RunSync(IF outcome.threw
                      THEN Failed("loginApiKey", [apikey |-> apikey], NoRequest, outcome.error)
                      ELSE Returned("loginApiKey", [apikey |-> apikey], NoRequest,
                                    outcome.value))
           /\ heldToken' = IF outcome.threw THEN heldToken ELSE outcome.value
           /\ UNCHANGED <<clock, other, dataSet, config>>

\* a second passes
tick ==
    /\ inv.pc \in {"idle", "running"}
    /\ clock < MaxClock
    /\ clock' = clock + 1
    /\ UNCHANGED <<inv, fetches, response, heldToken, other, dataSet, config>>

(* NYPD connector *)

getAll_call ==
    CallFetch("getAll", NoArgs, getUrl(<< <<"$limit", "100">> >>))

findComplaint_call ==
    \E borough \in boroughPossibleValues, lawCategory \in lawCategoryPossibleValues :
        CallFetch("findComplaint", [borough |-> borough, lawCategory |-> lawCategory],
                  getUrl(<< <<"$limit", "50">>,
                            <<"$where", "boro_nm=\"" \o borough \o "\" AND law_cat_cd=\""
                                           \o lawCategory \o "\"">> >>))

findSimilarComplaint_call ==
    \E seed \in ComplaintSeeds :
        LET levelOfOffence == OrEmpty(getProperty(seed, Complaint, "Level Of Offence"))
        IN CallFetch("findSimilarComplaint", [seed |-> seed],
                     getUrl(<< <<"$limit", "50">>,
                               <<"$where", "law_cat_cd=\"" \o Template(levelOfOffence)
                                              \o "\"">> >>))

expandQuery(seed) ==
    LET complaintNumber == OrEmpty(getProperty(seed, Complaint, "Complaint Number"))
        boroughName == OrEmpty(getProperty(seed, Location, "Borough Name"))
        precinctCode == OrEmpty(getProperty(seed, Location, "Precinct Code"))
    IN IF seed.type = Complaint
       THEN <<"$where", "cmplnt_num=" \o Template(complaintNumber)>>
       ELSE <<"$where", "boro_nm=\"" \o Template(boroughName) \o "\" AND addr_pct_cd="
                           \o Template(precinctCode)>>

expand_call ==
    \E seed \in ComplaintSeeds \cup LocationSeeds :
        CallFetch("expand", [seed |-> seed], getUrl(<< <<"$limit", "50">>, expandQuery(seed) >>))

expandWithConditions_call ==
    \E isPerson \in BOOLEAN, seed \in ComplaintSeeds :
        LET complaintNumber == OrEmpty(getProperty(seed, Complaint, "Complaint Number"))
        IN CallFetch("expandWithConditions", [isPerson |-> isPerson, seed |-> seed],
                     getUrl(<< <<"$limit", "50">>,
                               <<"$where", "cmplnt_num=" \o Template(complaintNumber)>> >>))

\* the rest of a handler of the NYPD connector, from the fetched data on
nypdBody(service, args, data) ==
    CASE service = "getAll" -> getAllLoop(data, 1, NewResult)
      [] service = "findComplaint" -> complaintsLoop(data, 1, NewResult)
      [] service = "findSimilarComplaint" -> complaintsLoop(data, 1, NewResult)
      [] service = "expand" -> expandBody(args.seed, data)
      [] service = "expandWithConditions" ->
             expandWithConditionsBody(args.isPerson, args.seed, data)

\* the handler `service` resumes with the response of its fetch
Resume(service) ==
    /\ inv.pc = "fetching"
    /\ inv.service = service
    /\ \E resp \in Responses :
          LET data == requestData(resp)
          IN /\ response' = resp
             /\ inv' = IF data.threw
                       THEN Failed(service, inv.args, inv.request, data.error)
                       ELSE Returned(service, inv.args, inv.request,
                                     nypdBody(service, inv.args, data.value))
    /\ UNCHANGED <<fetches, clock, heldToken, other, dataSet, config>>

getAll_resume == Resume("getAll")
findComplaint_resume == Resume("findComplaint")
findSimilarComplaint_resume == Resume("findSimilarComplaint")
expand_resume == Resume("expand")
expandWithConditions_resume == Resume("expandWithConditions")

----------------------------------------------------------------------------
(* The async example search.  The handler records a substatus, starts the  *)
(* lookup and awaits it; the lookup settles when its duration has elapsed. *)

\* the pending lookup: it settles durationSeconds after it was started, and
\* rejects when shouldFail
asyncLookupPeople(durationSeconds, shouldFail) ==
    [lookup |-> "asyncLookupPeople", durationSeconds |-> durationSeconds,
     shouldFail |-> shouldFail, dueAt |-> clock + durationSeconds]

\* const durationSeconds = seconds || 10
durationSecondsOf(seconds) == IF Falsy(seconds) THEN 10 ELSE seconds.num

\* variant: the failure flag is not passed on
asyncLookupOf_neverFails(seconds, shouldFail) ==
    asyncLookupPeople(durationSecondsOf(seconds), FALSE)

\* asyncLookupPeople(() => true, durationSeconds, !!shouldFail)
asyncLookupOf(seconds, shouldFail) ==
    asyncLookupPeople(durationSecondsOf(seconds), ~Falsy(shouldFail))

\* the handler is entered: new Result(), then the substatus
asyncExampleSearch_call ==
    /\ inv.pc = "idle"
    /\ \E seconds \in {Undefined} \cup {Num(n) : n \in 0..MaxDuration},
          shouldFail \in {Undefined, BoolV(TRUE), BoolV(FALSE)} :
          /\ clock <= MaxStart
          /\ clock + durationSecondsOf(seconds) <= MaxClock
          /\ inv' = [service |-> "asyncExampleSearch", pc |-> "started",
                     args |-> [seconds |-> seconds, shouldFail |-> shouldFail],
                     request |-> NoRequest, result |-> NewResult, error |-> NoError,
                     substatuses |-> << [type |-> "information",
                                         message |-> "Query started", at |-> clock] >>]
    /\ fetches' = 0
    /\ response' = NoResponse
    /\ UNCHANGED <<clock, heldToken, other, dataSet, config>>

\* the lookup is started and awaited
asyncExampleSearch_lookup ==
    /\ inv.pc = "started"
    /\ inv.service = "asyncExampleSearch"
    /\ inv' = [inv EXCEPT !.pc = "running",
                          !.request = asyncLookupOf(inv.args.seconds, inv.args.shouldFail)]
    /\ UNCHANGED <<fetches, response, clock, heldToken, other, dataSet, config>>

\* the lookup settled: the people are added to the result, or its error is thrown
asyncExampleSearch_resume ==
    /\ inv.pc = "running"
    /\ inv.service = "asyncExampleSearch"
    /\ clock >= inv.request.dueAt
    /\ inv' = IF inv.request.shouldFail
              THEN [inv EXCEPT !.pc = "failed", !.result = NoResult,
                               !.error = [message |-> "lookup failed"]]
              ELSE [inv EXCEPT !.pc = "returned",
                               !.result = addPeopleLoop(
                                   lookupPeople([person \in Range(dataSet) |-> TRUE]),
                                   inv.result, "identity")]
    /\ UNCHANGED <<fetches, response, clock, heldToken, other, dataSet, config>>

----------------------------------------------------------------------------

Next ==
    \/ exampleSeededSearch2
    \/ exampleSeededSearch2WithCustomSourceIdentifiers
    \/ searchSelectedDataSource
    \/ apiAuthSearch
    \/ loginApiKey
    \/ getAll_call
    \/ getAll_resume
    \/ findComplaint_call
    \/ findComplaint_resume
    \/ findSimilarComplaint_call
    \/ findSimilarComplaint_resume
    \/ expand_call
    \/ expand_resume
    \/ expandWithConditions_call
    \/ expandWithConditions_resume
    \/ respond

Spec == Init /\ [][Next]_vars

\* the authenticator and the authenticated service, with time passing
NextAuth ==
    \/ loginApiKey
    \/ apiAuthSearch
    \/ tick
    \/ respond

SpecAuth == Init /\ [][NextAuth]_vars

\* the 'find like this' search
NextFind ==
    \/ exampleSeededSearch1
    \/ respond

SpecFind == Init /\ [][NextFind]_vars

\* two invocations in flight: searches by name, 'edit property values', an
\* expansion of charted people, and a service that awaits a fetch
NextConcurrent ==
    \/ exampleSearch
    \/ exampleSearchWithCustomSourceIdentifiers
    \/ exampleSeededSearch3
    \/ exampleSeededSearch2WithCustomSourceIdentifiers_charted
    \/ getAll_call
    \/ getAll_resume
    \/ switch
    \/ respond

SpecConcurrent == Init /\ [][NextConcurrent]_vars

\* a service run again, at a later time, while the graph of an earlier run is kept
NextTwice ==
    \/ exampleSearch
    \/ exampleSearchWithCustomSourceIdentifiers
    \/ getAll_call
    \/ getAll_resume
    \/ tick
    \/ switch
    \/ respond

SpecTwice == Init /\ [][NextTwice]_vars

\* the async example search, with time passing; every step that can be taken
\* is taken in the end
NextAsync ==
    \/ asyncExampleSearch_call
    \/ asyncExampleSearch_lookup
    \/ asyncExampleSearch_resume
    \/ tick
    \/ respond

\* the services as the users the configuration was worked out for see them
NextConfig ==
    \/ configure
    \/ Next

SpecConfig == Init /\ [][NextConfig]_vars

SpecAsync ==
    /\ Init
    /\ [][NextAsync]_vars
    /\ WF_vars(asyncExampleSearch_lookup)
    /\ WF_vars(asyncExampleSearch_resume)
    /\ WF_vars(tick)

----------------------------------------------------------------------------
(* Properties *)

FriendServices == {"exampleSeededSearch2", "exampleSeededSearch2WithCustomSourceIdentifiers"}

\* the invocation of one of `services` has returned its result graph
ReturnedBy(services) == inv.pc = "returned" /\ inv.service \in services

\* positions in the log of the calls that add a link / an entity
LinkCalls(r) == {i \in DOMAIN r.log : r.log[i].op = "addLink"}
EntityCalls(r) == {i \in DOMAIN r.log : r.log[i].op \in {"addEntity", "addEntityFromSeed"}}

\* C1: in a result of getFriendsLinkedToSeeds, two addLink calls made for the
\* same two people, once with A as the looked-up person and B as the friend and
\* once the other way round, are made with the same link identifier, whatever
\* the order of the seeds.
C1_FriendLinkIdIsOrderIndependent ==
    ReturnedBy(FriendServices) =>
        LET log == inv.result.log
        IN \A i, j \in LinkCalls(inv.result) :
              (log[i].fromEnd = log[j].toEnd /\ log[i].toEnd = log[j].fromEnd)
                  => log[i].id = log[j].id

\* a link was added for A looked up with friend B, and later for B looked up with friend A
C1_Witness ==
    /\ ReturnedBy(FriendServices)
    /\ \E i, j \in LinkCalls(inv.result) :
          /\ i < j
          /\ inv.result.log[i].fromEnd # inv.result.log[i].toEnd
          /\ inv.result.log[i].fromEnd = inv.result.log[j].toEnd
          /\ inv.result.log[i].toEnd = inv.result.log[j].fromEnd

\* the seeds are two distinct seeds that both resolve to the person p1 alone
TwoSeedsForP1 ==
    /\ Len(inv.args.seeds) = 2
    /\ inv.args.seeds[1].seedId # inv.args.seeds[2].seedId
    /\ \A k \in 1..2 : connectorKeyIdsOfSeed(inv.args.seeds[k]) = {P1}

\* C2: two distinct seeds that both resolve to p1, whose only friend is p2,
\* give exactly one Friendswith link, with identifier "p1-p2"; and no result of
\* a friend expansion holds two links between the same two people.
C2_NoDuplicateFriendLink ==
    /\ (ReturnedBy({"exampleSeededSearch2"}) /\ TwoSeedsForP1) =>
          /\ Len(inv.result.links) = 1
          /\ inv.result.links[1].type = Friendswith
          /\ inv.result.links[1].id = StringId("p1-p2")
    /\ ReturnedBy(FriendServices) =>
          \A i, j \in DOMAIN inv.result.links :
              i # j => {inv.result.links[i].fromEnd, inv.result.links[i].toEnd}
                         # {inv.result.links[j].fromEnd, inv.result.links[j].toEnd}

\* the pair (p1, p2) came up once for each of the two seeds
C2_Witness ==
    /\ ReturnedBy({"exampleSeededSearch2"})
    /\ TwoSeedsForP1
    /\ Cardinality(LinkCalls(inv.result)) = 2

\* the invocation has returned a result graph
ReturnedGraph == inv.pc = "returned" /\ inv.service # "loginApiKey"

\* C3: in a returned result graph, two entities of the same type built from
\* different source rows never have the same identifier.
C3_EntityIdsUniqueAcrossRows ==
    ReturnedGraph =>
        LET log == inv.result.log
        IN \A i, j \in EntityCalls(inv.result) :
              log[i].key = log[j].key => log[i].src = log[j].src

NypdServices == {"getAll", "findComplaint", "findSimilarComplaint", "expand",
                 "expandWithConditions"}

\* C4: in the result graph an NYPD service or a friend expansion returns,
\* every entity built from a record and every link carries a source reference.
C4_EveryItemHasOneSourceReference ==
    ReturnedBy(NypdServices \cup FriendServices) =>
        /\ \A i \in DOMAIN inv.result.entities :
              inv.result.entities[i].key.kind = "record"
                  => inv.result.entities[i].sourceRef # NoRef
        /\ \A i \in DOMAIN inv.result.links : inv.result.links[i].sourceRef # NoRef

\* the end `key` of a link added by call i was added to the result before
AddedBefore(r, key, i) ==
    \E j \in EntityCalls(r) : j < i /\ r.log[j].key = key

\* C5: whenever a service adds a link, both ends of the link have been added
\* to the same result before, from a record or from the seed.
C5_LinkEndsAddedBeforeLink ==
    ReturnedBy({"getAll", "expand", "expandWithConditions"} \cup FriendServices) =>
        \A i \in LinkCalls(inv.result) :
            /\ AddedBefore(inv.result, inv.result.log[i].fromEnd, i)
            /\ AddedBefore(inv.result, inv.result.log[i].toEnd, i)

\* expand returned links of which the seed's entity is one end
C5_Witness ==
    /\ ReturnedBy({"expand"})
    /\ \E i \in LinkCalls(inv.result) :
          /\ inv.result.log[i].toEnd.kind = "seed"
          /\ inv.result.log[i].fromEnd.kind = "record"

\* C6: when the fetch of an NYPD service answers with a status other than 200,
\* the invocation has failed with an error that carries the status text, no
\* result graph is returned, and the fetch was made once.
C6_FetchErrorIsTerminal ==
    (inv.service \in NypdServices /\ response # NoResponse /\ response.status # 200) =>
        /\ inv.pc = "failed"
        /\ inv.error.message = response.statusText
        /\ inv.result = NoResult
        /\ fetches = 1

\* an NYPD service got the answer 404
C6_Witness ==
    /\ inv.service \in NypdServices
    /\ response # NoResponse
    /\ response.status = 404
    /\ inv.pc = "failed"

\* all the identifiers a seed carries for the people of this connector: the
\* ids of its Person connector keys, or the keys of its source identifiers of
\* the connector's type
AllIdsOfSeed(service, seed) ==
    IF service = "exampleSeededSearch2"
    THEN {seed.connectorKeys[i].id :
              i \in {k \in DOMAIN seed.connectorKeys : seed.connectorKeys[k].type = Person}}
    ELSE {seed.sourceIdentifiers[i].key[1] :
              i \in {k \in DOMAIN seed.sourceIdentifiers :
                        seed.sourceIdentifiers[k].type = customSourceIdentifierType}}

\* the people of the data set that have a friend in the data set
PeopleWithFriends ==
    {p \in Range(peopleData) : \E f \in Range(peopleData) : f.id \in Range(p.friends)}

\* C7: the people a friend expansion expands (the from-ends of the links it
\* adds) are the people with friends whose id is any of the identifiers of any
\* seed.
C7_SeedIdsAreUnited ==
    ReturnedBy(FriendServices) =>
        LET ids == UNION {AllIdsOfSeed(inv.service, inv.args.seeds[k]) :
                              k \in DOMAIN inv.args.seeds}
            idFactory == IF inv.service = "exampleSeededSearch2" THEN "identity"
                         ELSE "createCustomSourceIdentifier"
        IN {inv.result.log[i].fromEnd : i \in LinkCalls(inv.result)}
             = {personEntityOf(p, idFactory) : p \in {q \in PeopleWithFriends : q.id \in ids}}

\* one seed with two identifiers, and both people were expanded
C7_Witness ==
    /\ ReturnedBy(FriendServices)
    /\ Len(inv.args.seeds) = 1
    /\ Cardinality(AllIdsOfSeed(inv.service, inv.args.seeds[1])) = 2
    /\ Cardinality({inv.result.log[i].fromEnd : i \in LinkCalls(inv.result)}) = 2

MandatoryNumericProperties ==
    {"Precinct Code", "Jurisdiction Code", "Offence Classification Code"}

\* C8: an NYPD service returns no entity whose mandatory numeric property is
\* the unparsed value of a field that is no number (the invocation fails
\* instead).
C8_NonNumericFieldFailsTheInvocation ==
    ReturnedBy(NypdServices) =>
        \A i \in DOMAIN inv.result.entities :
            \A n \in MandatoryNumericProperties \cap DOMAIN inv.result.entities[i].props :
                ~IsNaN(inv.result.entities[i].props[n])

\* C9: apiAuthSearch fails with a 401 AuthenticationRequiredError and returns
\* no graph when the token is no token, is signed with another secret, or was
\* issued more than 60 seconds ago; for a token of loginApiKey issued less than
\* 60 seconds ago it returns exactly the two tweets.
C9_TokenCheckedBeforeBody ==
    (inv.service = "apiAuthSearch" /\ inv.pc # "idle") =>
        LET tok == inv.args.token
            genuine == tok.wellFormed /\ tok.secret = "test 2"
        IN /\ (~genuine \/ clock - tok.iat > 60) =>
                 /\ inv.pc = "failed"
                 /\ inv.error.name = "AuthenticationRequiredError"
                 /\ inv.error.status = 401
                 /\ inv.result = NoResult
           /\ (genuine /\ clock - tok.iat < 60) =>
                 /\ inv.pc = "returned"
                 /\ {inv.result.entities[i].key : i \in DOMAIN inv.result.entities}
                      = {EntityKey("record", Tweet, StringId("tweet-1")),
                         EntityKey("record", Tweet, StringId("tweet-2"))}

\* a token of loginApiKey was presented more than 60 seconds after it was issued
C9_Witness ==
    /\ inv.service = "apiAuthSearch"
    /\ inv.pc = "failed"
    /\ inv.args.token = heldToken
    /\ clock - heldToken.iat > 60

\* C10: loginApiKey returns a token exactly when the key is 'Example'; for any
\* other key it throws a DetailedError with status 401 and title 'Invalid
\* credentials', and the token the caller holds stays what it was.
C10_TokenIffKeyIsExample ==
    /\ [](inv.service = "loginApiKey" =>
            /\ (inv.args.apikey = "Example") <=> (inv.pc = "returned")
            /\ inv.pc = "returned" =>
                  (inv.result.wellFormed /\ inv.result.secret = "test 2" /\ heldToken = inv.result)
            /\ inv.pc # "returned" =>
                  /\ inv.pc = "failed"
                  /\ inv.result = NoResult
                  /\ inv.error.name = "DetailedError"
                  /\ inv.error.status = 401
                  /\ inv.error.title = "Invalid credentials")
    /\ [][(inv'.service = "loginApiKey" /\ inv'.pc = "failed") => heldToken' = heldToken]_vars

\* a key that differs from 'Example' only in case was refused while a token is held
C10_Witness ==
    /\ inv.service = "loginApiKey"
    /\ inv.pc = "failed"
    /\ inv.args.apikey = "example"
    /\ heldToken # NoToken

\* the keys of the entities of a type in a result
EntityKeysOfType(r, type) ==
    {r.entities[i].key : i \in {k \in DOMAIN r.entities : r.entities[k].key.type = type}}

\* C14: when the fetch of getAll answers with the single record of complaint
\* "100" in borough "BROOKLYN", precinct "1", the returned graph holds exactly
\* one Complaint, with id "Complaint: 100", exactly one Location, with id
\* "Borough: BROOKLYN Precinct: 1", and a Locatedat link with id "100" from
\* that Complaint to that Location.
C14_GetAllScenario1 ==
    (/\ ReturnedBy({"getAll"})
     /\ Len(response.body) = 1
     /\ response.body[1].cmplnt_num = "100"
     /\ response.body[1].boro_nm = "BROOKLYN"
     /\ response.body[1].addr_pct_cd = <<"1">>) =>
        LET complaint == [kind |-> "record", type |-> "Complaint",
                          id |-> [string |-> "Complaint: 100"]]
            location == [kind |-> "record", type |-> "Location",
                         id |-> [string |-> "Borough: BROOKLYN Precinct: 1"]]
        IN /\ EntityKeysOfType(inv.result, "Complaint") = {complaint}
           /\ Cardinality({i \in DOMAIN inv.result.entities :
                               inv.result.entities[i].key.type = "Complaint"}) = 1
           /\ EntityKeysOfType(inv.result, "Location") = {location}
           /\ Cardinality({i \in DOMAIN inv.result.entities :
                               inv.result.entities[i].key.type = "Location"}) = 1
           /\ \E i \in DOMAIN inv.result.links :
                  /\ inv.result.links[i].type = "Locatedat"
                  /\ inv.result.links[i].id = [string |-> "100"]
                  /\ inv.result.links[i].fromEnd = complaint
                  /\ inv.result.links[i].toEnd = location
           /\ Cardinality({i \in DOMAIN inv.result.links :
                               inv.result.links[i].type = "Locatedat"}) = 1

\* getAll returned the graph of the single record of complaint "100"
C14_Witness ==
    /\ ReturnedBy({"getAll"})
    /\ Len(response.body) = 1
    /\ response.body[1].cmplnt_num = "100"
    /\ Len(inv.result.links) = 3

\* the add-link calls made with the complaint number of a row as identifier
LinkCallsOfRow(r, datum) ==
    {j \in LinkCalls(r) : r.log[j].id = StringId(datum.cmplnt_num)}

\* C18: expand always adds the seed as an entity of the result, and for every
\* fetched record it adds exactly three links, a Locatedat, a Victimof and a
\* Suspectof, with the complaint number of the record as identifier.  With a
\* Complaint seed the seed's entity is the complaint end of all three and no
\* Complaint entity is built from a record; with a Location seed the seed's
\* entity is the location end of Locatedat and no Location entity is built
\* from a record.
C18_ExpandWrapsSeedAndAddsThreeLinks ==
    ReturnedBy({"expand"}) =>
        LET r == inv.result
            seed == inv.args.seed
            seedEntity == [kind |-> "seed", type |-> seed.type, id |-> [string |-> seed.seedId]]
        IN /\ \E i \in DOMAIN r.entities : r.entities[i].key = seedEntity
           /\ Cardinality(LinkCalls(r)) = 3 * Len(response.body)
           /\ \A k \in DOMAIN response.body :
                  /\ Cardinality(LinkCallsOfRow(r, response.body[k])) = 3
                  /\ {r.log[j].type : j \in LinkCallsOfRow(r, response.body[k])}
                        = {"Locatedat", "Victimof", "Suspectof"}
           /\ seed.type = "Complaint" =>
                  /\ \A j \in LinkCalls(r) :
                         IF r.log[j].type = "Locatedat" THEN r.log[j].fromEnd = seedEntity
                         ELSE r.log[j].toEnd = seedEntity
                  /\ \A i \in DOMAIN r.entities :
                         r.entities[i].key.type = "Complaint" => r.entities[i].key = seedEntity
           /\ seed.type = "Location" =>
                  /\ \A j \in LinkCalls(r) :
                         r.log[j].type = "Locatedat" => r.log[j].toEnd = seedEntity
                  /\ \A i \in DOMAIN r.entities :
                         r.entities[i].key.type = "Location" => r.entities[i].key = seedEntity

\* expand of a Complaint seed returned the links of two fetched records
C18_Witness ==
    /\ ReturnedBy({"expand"})
    /\ inv.args.seed.type = "Complaint"
    /\ Len(response.body) = 2
    /\ Len(inv.result.links) = 6

\* C20: expandWithConditions adds the seed's entity before any link; for every
\* fetched record it adds a Location entity and a Locatedat link from the seed
\* to it, whatever the 'Person' condition is; and it adds the suspect and the
\* victim of the record, with a Suspectof and a Victimof link to the seed,
\* exactly when the 'Person' condition is true.
C20_PeopleOnlyWhenPersonConditionHolds ==
    ReturnedBy({"expandWithConditions"}) =>
        LET r == inv.result
            seed == inv.args.seed
            seedEntity == [kind |-> "seed", type |-> seed.type, id |-> [string |-> seed.seedId]]
            PersonOf(role, datum) ==
                [kind |-> "record", type |-> "Person",
                 id |-> [string |-> role \o ": " \o datum.cmplnt_num]]
            LocationOf(datum) ==
                [kind |-> "record", type |-> "Location",
                 id |-> [string |-> "Borough: " \o datum.boro_nm \o " Precinct: "
                                      \o Str(datum.addr_pct_cd)]]
            Linked(type, datum, fromEnd, toEnd) ==
                \E j \in LinkCalls(r) :
                    /\ r.log[j].type = type
                    /\ r.log[j].id = [string |-> datum.cmplnt_num]
                    /\ r.log[j].fromEnd = fromEnd
                    /\ r.log[j].toEnd = toEnd
        IN /\ r.log[1].op = "addEntityFromSeed"
           /\ r.log[1].key = seedEntity
           /\ \A k \in DOMAIN response.body :
                  LET datum == response.body[k]
                  IN /\ \E i \in DOMAIN r.entities : r.entities[i].key = LocationOf(datum)
                     /\ Linked("Locatedat", datum, seedEntity, LocationOf(datum))
                     /\ inv.args.isPerson <=>
                            \E i \in DOMAIN r.entities : r.entities[i].key = PersonOf("Suspect", datum)
                     /\ inv.args.isPerson <=>
                            \E i \in DOMAIN r.entities : r.entities[i].key = PersonOf("Victim", datum)
                     /\ inv.args.isPerson <=>
                            Linked("Suspectof", datum, PersonOf("Suspect", datum), seedEntity)
                     /\ inv.args.isPerson <=>
                            Linked("Victimof", datum, PersonOf("Victim", datum), seedEntity)
           /\ ~inv.args.isPerson =>
                  /\ EntityKeysOfType(r, "Person") = {}
                  /\ \A j \in LinkCalls(r) : r.log[j].type = "Locatedat"

\* expandWithConditions returned the locations of two fetched records while the
\* 'Person' condition was false
C20_Witness ==
    /\ ReturnedBy({"expandWithConditions"})
    /\ ~inv.args.isPerson
    /\ Len(response.body) = 2
    /\ Len(inv.result.links) = 2

\* the first `n` characters of a string
FirstChars(cs, n) == [i \in 1..(IF Len(cs) < n THEN Len(cs) ELSE n) |-> cs[i]]

\* C15: exampleSeededSearch1 returns no person whose id is the id of one of the
\* seed's Person connector keys, and it returns any other person of the data
\* set exactly when the person's forename is the seed's first name, or the
\* person's surname is the seed's last name, or 'Consider year of birth' is
\* true, the seed has a year of birth and the first four characters of the two
\* dates of birth are the same.
C15_FindLikeThisReturnsTheSimilarOthers ==
    ReturnedBy({"exampleSeededSearch1"}) =>
        LET seed == inv.args.seeds[1]
            keyIds == {seed.connectorKeys[i].id :
                          i \in {k \in DOMAIN seed.connectorKeys :
                                    seed.connectorKeys[k].type = "Person"}}
            returned == {inv.result.entities[i].key : i \in DOMAIN inv.result.entities}
            first == seed.props["First Name"]
            last == seed.props["Last Name"]
            dob == seed.props["Year of Birth"]
            hasDob == dob # [undefined |-> TRUE] /\ dob # [chars |-> <<>>]
        IN \A k \in DOMAIN peopleData :
              LET p == peopleData[k]
                  entity == [kind |-> "record", type |-> "Person", id |-> [string |-> Str(p.id)]]
              IN /\ p.id \in keyIds => entity \notin returned
                 /\ p.id \notin keyIds =>
                       (entity \in returned <=>
                           \/ first = [chars |-> p.forename]
                           \/ last = [chars |-> p.surname]
                           \/ (/\ inv.args.useYearOfBirth = [bool |-> TRUE]
                               /\ hasDob
                               /\ FirstChars(dob.chars, 4) = FirstChars(p.dob, 4)))

\* a person with the first name of the seed was left out because the seed holds
\* its record, and another person was returned for the year of birth alone
C15_Witness ==
    /\ ReturnedBy({"exampleSeededSearch1"})
    /\ inv.args.seeds[1].props["First Name"] = [chars |-> <<"B", "o", "b">>]
    /\ inv.args.seeds[1].props["Last Name"] = [undefined |-> TRUE]
    /\ inv.args.useYearOfBirth = [bool |-> TRUE]
    /\ {inv.args.seeds[1].connectorKeys[i].id : i \in 1..(Len(inv.args.seeds[1].connectorKeys) - 1)}
          = {<<"p", "2">>}
    /\ {inv.result.entities[i].key.id : i \in DOMAIN inv.result.entities}
          = {[string |-> "p1"], [string |-> "p10"]}

\* the people of the data set, by id, that a search for `term` is to find
ExpectedMatches(term) ==
    CASE term = <<"*">> -> {"p1", "p2", "p10"}
      [] term = <<"a", "n">> -> {"p1", "p10"}
      [] term = <<"L", "E", "E">> -> {"p1", "p2"}
      [] term = <<"x">> -> {}

\* the string an id factory's identifier holds
IdString(id) == IF "string" \in DOMAIN id THEN id.string ELSE id.key[1]

\* the result graph of the returned invocation `i`, which got the response
\* `resp`, is the graph of its own inputs and of the data set as loaded
ResultIsOwn(i, resp) ==
    LET r == i.result
    IN CASE i.service = "getAll" ->
              /\ Len(r.log) = 7 * Len(resp.body)
              /\ {r.entities[k].key.id : k \in DOMAIN r.entities}
                    = UNION {{[string |-> "Complaint: " \o resp.body[k].cmplnt_num],
                              [string |-> "Suspect: " \o resp.body[k].cmplnt_num],
                              [string |-> "Victim: " \o resp.body[k].cmplnt_num],
                              [string |-> "Borough: " \o resp.body[k].boro_nm \o " Precinct: "
                                            \o Str(resp.body[k].addr_pct_cd)]} :
                                k \in DOMAIN resp.body}
              /\ {r.links[k].id : k \in DOMAIN r.links}
                    = {[string |-> resp.body[k].cmplnt_num] : k \in DOMAIN resp.body}
         [] i.service = "exampleSeededSearch3" ->
              /\ r.links = <<>>
              /\ Len(r.entities) = Len(i.args.seeds)
              /\ \A k \in DOMAIN r.entities :
                     /\ r.entities[k].key = [kind |-> "seed", type |-> "Person",
                                             id |-> [string |-> i.args.seeds[k].seedId]]
                     /\ r.entities[k].props = [n \in {"Middle Name"} |-> "Returned middle name"]
         [] i.service \in {"exampleSearch", "exampleSearchWithCustomSourceIdentifiers"} ->
              /\ r.links = <<>>
              /\ {IdString(r.entities[k].key.id) : k \in DOMAIN r.entities}
                    = ExpectedMatches(i.args.term)
              /\ Len(r.entities) = Cardinality(ExpectedMatches(i.args.term))
              /\ \A k \in DOMAIN r.entities :
                     \E p \in Range(peopleData) :
                         /\ Str(p.id) = IdString(r.entities[k].key.id)
                         /\ r.entities[k].props["First Name"] = Str(p.forename)
                         /\ r.entities[k].props["Last Name"] = Str(p.surname)
                         /\ r.entities[k].props["Year of Birth"] = Str(p.dob)
                         /\ r.entities[k].props["SSN"] = p.ssn
         [] OTHER -> TRUE

\* C12: with two invocations in flight, in any interleaving, the data set stays
\* as it was loaded, and the graph each invocation returns is the graph of its
\* own inputs alone: the rows of its own fetch, its own seeds with the middle
\* name set in the result only, the people its own term matches.
C12_InvocationsDoNotInterfere ==
    /\ dataSet = peopleData
    /\ inv.pc = "returned" => ResultIsOwn(inv, response)
    /\ other.inv.pc = "returned" => ResultIsOwn(other.inv, other.response)

\* 'edit property values' ran to its end while a getAll was suspended at its fetch
C12_Witness ==
    /\ ReturnedBy({"exampleSeededSearch3"})
    /\ other.inv.pc = "fetching"
    /\ other.inv.service = "getAll"

\* C19: every entity that 'Example Search with Custom Source Identifiers'
\* returns carries the source identifier of the connector's type whose key is
\* the id of its person; and when such entities come back as seeds of the
\* expand service with custom source identifiers, the people expanded are the
\* people of those entities and no other: the seed's source identifier of
\* another type yields no id.
C19_CustomSourceIdentifiersRoundTrip ==
    /\ ReturnedBy({"exampleSearchWithCustomSourceIdentifiers"}) =>
          /\ \A i \in EntityCalls(inv.result) :
                 inv.result.log[i].key.id =
                     [type |-> "This value should be unique to your data source - do not reuse",
                      key |-> <<Str(peopleData[inv.result.log[i].src.row].id)>>]
          /\ inv.args.term = <<"*">> => Len(inv.result.entities) = Len(peopleData)
    /\ (/\ ReturnedBy({"exampleSeededSearch2WithCustomSourceIdentifiers"})
        /\ "charted" \in DOMAIN inv.args) =>
          /\ {inv.result.log[i].fromEnd : i \in LinkCalls(inv.result)}
                = {[kind |-> "record", type |-> "Person",
                    id |-> [type |-> "This value should be unique to your data source - do not reuse",
                            key |-> <<Str(inv.args.seeds[k].sourceIdentifiers[1].key[1])>>]] :
                       k \in DOMAIN inv.args.seeds}

\* the entity of p1, returned by the search, came back as the only seed and p1
\* alone was expanded
C19_Witness ==
    /\ ReturnedBy({"exampleSeededSearch2WithCustomSourceIdentifiers"})
    /\ "charted" \in DOMAIN inv.args
    /\ Len(inv.args.seeds) = 1
    /\ inv.args.seeds[1].sourceIdentifiers[1].key = << <<"p", "1">> >>
    /\ Cardinality(LinkCalls(inv.result)) = 1
    /\ other.inv.pc = "returned"
    /\ other.inv.service = "exampleSearchWithCustomSourceIdentifiers"
    /\ \E e \in Range(other.inv.result.entities) :
          e.key.id = [type |-> inv.args.seeds[1].sourceIdentifiers[1].type, key |-> <<"p1">>]

\* identifiers and property values of the entities of a graph, and the
\* identifiers of its links
GraphContent(r) ==
    [entities |-> [i \in DOMAIN r.entities |->
                      [key |-> r.entities[i].key, props |-> r.entities[i].props]],
     links |-> [i \in DOMAIN r.links |-> [type |-> r.links[i].type, id |-> r.links[i].id]]]

\* C17: for every user the 'Choose data source' condition is visible when the
\* description speaks of a selection of data sources and hidden when it
\* speaks of a single data source, and a search with the condition hidden
\* uses 'dataSource1'.
C17_ConditionVisibilityAgreesWithDescription ==
    config # NoConfig =>
        /\ config.description = "A service which can search a selection of data sources"
               => ~config.dataSourceHidden
        /\ config.description = "A service which can search a single data source"
               => config.dataSourceHidden
        /\ (ReturnedBy({"searchSelectedDataSource"}) /\ config.dataSourceHidden) =>
               \A i \in DOMAIN inv.result.entities :
                   inv.result.entities[i].props["Contents"] \in
                       Range(getSearchResultsFromDataSource("dataSource1",
                                                            inv.args.searchTerm))

AsyncInv == inv.service = "asyncExampleSearch"
AsyncEnded == AsyncInv /\ inv.pc \in {"returned", "failed"}

\* the substatus is there from the first state of the invocation on, and the
\* lookup is not started in that state
QueryStartedBeforeLookup ==
    AsyncInv =>
        /\ Len(inv.substatuses) = 1
        /\ inv.substatuses[1].message = "Query started"
        /\ inv.pc = "started" => inv.request = NoRequest
        /\ inv.pc # "started" => inv.substatuses[1].at <= inv.request.dueAt - inv.request.durationSeconds

\* the steps of the state machine: Started -> Running -> Completed | Failed,
\* an ended invocation changes no more but for its delivery to the caller
AsyncStep ==
    AsyncInv =>
        \/ inv' = inv
        \/ inv.pc = "started" /\ inv'.pc = "running"
        \/ inv.pc = "running" /\ inv'.pc \in {"returned", "failed"}
        \/ inv.pc \in {"returned", "failed"} /\ inv' = Idle

\* C11: an invocation of the async example search records 'Query started'
\* before the lookup begins, goes Started -> Running -> Completed | Failed,
\* reaches one of the two ends and stays there, ends Failed exactly when
\* 'Should fail' is true, and is never cancelled while it runs.
C11_AsyncStateMachine ==
    /\ [](QueryStartedBeforeLookup)
    /\ [][AsyncStep]_vars
    /\ [](AsyncInv /\ inv.pc = "started" => <>AsyncEnded)
    /\ [](AsyncEnded => (inv.pc = "failed" <=> inv.args.shouldFail = BoolV(TRUE)))

\* a search told to fail has run its duration and failed
C11_Witness ==
    /\ AsyncEnded
    /\ inv.pc = "failed"
    /\ inv.args.seconds = Num(2)
    /\ clock >= 2

\* C16: the lookup runs for the given 'Duration in seconds', whatever value
\* at or above 0 is given, and for 10 seconds only when none is given.
C16_RunsForTheGivenDuration ==
    (AsyncInv /\ inv.pc = "running") =>
        inv.request.durationSeconds =
            IF inv.args.seconds = Undefined THEN 10 ELSE inv.args.seconds.num

\* the invocation at hand and the other one are two finished runs of the same
\* service on the same inputs and the same source records
TwoRunsOfTheSame ==
    /\ inv.pc = "returned"
    /\ other.inv.pc = "returned"
    /\ inv.service = other.inv.service
    /\ inv.args = other.inv.args
    /\ response = other.response

ContentButForAge(r) ==
    [entities |-> [i \in DOMAIN r.entities |->
                      [key |-> r.entities[i].key,
                       props |-> [n \in DOMAIN r.entities[i].props \ {"Age"} |->
                                     r.entities[i].props[n]]]],
     links |-> [i \in DOMAIN r.links |-> [type |-> r.links[i].type, id |-> r.links[i].id]]]

====
